---- MODULE Spec2Model ----
(***************************************************************************)
(* Model of the multi-provider streaming chat endpoint (POST /api/chat) of *)
(* backend/cors-config.js: request augmentation, provider routing, the     *)
(* three provider adapters and the frames they write on the response.      *)
(*                                                                         *)
(* Strings are modelled as sequences of tokens, so that concatenation is   *)
(* \o and "contains" / "precedes" are statements about positions.          *)
(***************************************************************************)
EXTENDS Integers, Sequences, FiniteSets, TLC

VARIABLES
    pc,               \* position of the turn: idle, loading, sending, streaming, done, failed
    req,              \* req.body of the turn being handled (locals of the handler)
    enhancedMessage,  \* the handler's local enhancedMessage while it awaits loadDocuments
    provider,         \* adapter the turn was routed to
    backendReq,       \* request in flight to the provider backend
    requests,         \* number of requests issued to the provider backend in this turn
    res,              \* the response object: frames written, ended
    stream,           \* response.data of the backend: none, open, ended, errored, or
                      \* stalled when the backend will send nothing more
    chunks,           \* number of data events delivered in this turn
    unhandled,        \* an exception or 'error' event nobody handled
    knowledgeLoader,  \* the module-level knowledgeLoader
    kbCalls,          \* calls made to the knowledge collaborator in this turn
    delivered,        \* what the backend stream delivered in this turn, as its lines say
    clientGone,       \* the caller closed its connection during this turn
    persona,          \* the persona's suffix decisions of the turn, where they are observed
    genAI,            \* the module-level Gemini client (present or null)
    openaiKey,        \* process.env.OPENAI_API_KEY is set
    geminiKey,        \* process.env.GEMINI_API_KEY is set
    clients,          \* requests in flight at the knowledge endpoints, per client
    kbLog,            \* assignments of knowledgeLoader, initial loads in progress
    knowledgeDir,     \* files of ./knowledge
    worker            \* the Cloudflare worker: its request and where it stands

\* state of the chat endpoint of the server, the knowledge loader apart
chatVars == <<pc, req, enhancedMessage, provider, backendReq, requests, res, stream,
              chunks, unhandled, kbCalls, delivered, clientGone, persona, genAI,
              openaiKey, geminiKey>>

\* state of the other endpoints and of the worker
sideVars == <<clients, kbLog, knowledgeDir, worker>>

vars == <<pc, req, enhancedMessage, provider, backendReq, requests, res, stream,
          chunks, unhandled, knowledgeLoader, kbCalls, delivered, clientGone,
          persona, genAI, openaiKey, geminiKey, clients, kbLog, knowledgeDir, worker>>

----------------------------------------------------------------------------
(* Bounds *)

MaxHist == 11
MaxFiles == 1
MaxLines == 2
MaxChunks == 2
MaxAttachments == 2
MaxClients == 2

(* Program constants *)

GeminiHistoryWindow == 10
OllamaHistoryWindow == 6

----------------------------------------------------------------------------
(* Tokens and strings *)

T(k, a) == [k |-> k, a |-> a]

Min(a, b) == IF a < b THEN a ELSE b

RECURSIVE Concat(_)
Concat(ss) == IF ss = <<>> THEN <<>> ELSE Head(ss) \o Concat(Tail(ss))

\* Array.prototype.slice(-k): start at max(len - k, 0)
SliceLast(s, k) ==
    LET start == IF Len(s) - k < 0 THEN 0 ELSE Len(s) - k
    IN  SubSeq(s, start + 1, Len(s))

\* position of the first token of kind k in s, 0 when absent
IndexOf(s, k) ==
    IF \E i \in 1..Len(s) : s[i].k = k
    THEN CHOOSE i \in 1..Len(s) : s[i].k = k /\ \A j \in 1..(i-1) : s[j].k # k
    ELSE 0

Has(s, k) == IndexOf(s, k) # 0

----------------------------------------------------------------------------
(* Inputs *)

\* model identifiers, as sequences of fragments
ModelIds ==
    { <<"gemini", "-1.5-pro">>, <<"gpt", "-4">>, <<"llama2">>,
      <<"gpt", "-", "gemini">>, <<"chat", "gpt">> }

\* the i-th history entry; roles alternate, content is identified by position
HistoryEntry(i) == [role |-> IF i % 2 = 1 THEN "user" ELSE "assistant", content |-> i]

History(n) == [i \in 1..n |-> HistoryEntry(i)]

\* useKnowledge as received: boolean true/false, absent, or the string "true"
UseKnowledgeValues == {"true", "false", "absent", "string"}

\* userProfile: absent, name only, context of white space only, context filled
ProfileValues == {"none", "nameOnly", "blankContext", "full"}

\* attachments: declared type, filename extension, outcome of PDF extraction
FileValues ==
    { [type |-> "text/plain",      ext |-> ".txt", pdf |-> "none"],
      [type |-> "absent",          ext |-> ".md",  pdf |-> "none"],
      [type |-> "image/png",       ext |-> ".png", pdf |-> "none"],
      [type |-> "application/pdf", ext |-> ".pdf", pdf |-> "text"],
      [type |-> "application/pdf", ext |-> ".pdf", pdf |-> "empty"],
      [type |-> "application/pdf", ext |-> ".pdf", pdf |-> "parseError"],
      [type |-> "application/zip", ext |-> ".zip", pdf |-> "none"] }

\* attachments in every state the PDF branch tells apart: text, text of white space
\* only, no text, a parse that rejects, a data URL without payload, data that is no
\* data URL; and a PDF known by its filename only
AttachmentValues ==
    { [type |-> "text/plain",      ext |-> ".txt", pdf |-> "none"],
      [type |-> "image/png",       ext |-> ".png", pdf |-> "none"],
      [type |-> "application/zip", ext |-> ".zip", pdf |-> "none"],
      [type |-> "application/pdf", ext |-> ".pdf", pdf |-> "text"],
      [type |-> "application/pdf", ext |-> ".pdf", pdf |-> "blank"],
      [type |-> "application/pdf", ext |-> ".pdf", pdf |-> "empty"],
      [type |-> "application/pdf", ext |-> ".pdf", pdf |-> "parseError"],
      [type |-> "application/pdf", ext |-> ".pdf", pdf |-> "noBase64"],
      [type |-> "application/pdf", ext |-> ".pdf", pdf |-> "badData"],
      [type |-> "absent",          ext |-> ".pdf", pdf |-> "empty"] }

AttachmentLists == UNION { [1..n -> AttachmentValues] : n \in 0..MaxAttachments }

\* requests that differ in their attachments, one model per provider
AttachmentRequests ==
    [model : { <<"gemini", "-1.5-pro">>, <<"gpt", "-4">>, <<"llama2">> },
     histLen : {0}, useKnowledge : {"true", "false"}, profile : {"none"},
     files : AttachmentLists]

\* requests that differ in their usePersonality flag: true, false or absent
PersonaRequests ==
    [model : { <<"gemini", "-1.5-pro">>, <<"gpt", "-4">>, <<"llama2">> },
     histLen : {0, 1}, useKnowledge : {"false"}, profile : {"none"},
     files : {<<>>}, usePersonality : {"true", "false", "absent"}]

FileLists == UNION { [1..n -> FileValues] : n \in 0..MaxFiles }

Requests ==
    [model : ModelIds, histLen : 0..MaxHist, useKnowledge : UseKnowledgeValues,
     profile : ProfileValues, files : FileLists]

NoReq == [model |-> <<>>, histLen |-> 0, useKnowledge |-> "absent",
          profile |-> "none", files |-> <<>>]

NoBackendReq == [provider |-> "none", prompt |-> <<>>, messages |-> <<>>]

----------------------------------------------------------------------------
(* Provider routing *)

\* the router with its two tests in the other order
getProviderFromModel_GptFirst(model) ==
    IF Head(model) = "gpt" THEN "openai"
    ELSE IF \E i \in 1..Len(model) : model[i] = "gemini" THEN "gemini" ELSE "ollama"

getProviderFromModel(model) ==
    IF Head(model) = "gemini" \/ (\E i \in 1..Len(model) : model[i] = "gemini")
    THEN "gemini"
    ELSE IF Head(model) = "gpt" THEN "openai" ELSE "ollama"

----------------------------------------------------------------------------
(* Persona prompt phase: the preamble derived from the message *)

enhancePrompt(message) == << T("persona", 0) >>

----------------------------------------------------------------------------
(* Attachment fragments *)

IsTextLike(file) ==
    /\ file.type # "absent"
    /\ \/ file.type \in {"text/plain", "text/markdown"}
       \/ file.type = "application/json"
       \/ file.ext \in {".md", ".txt"}

IsImage(file) == file.type # "absent" /\ file.type \in {"image/png"}

IsPdf(file) == file.type = "application/pdf" \/ file.ext = ".pdf"

\* the PDF branch with an extraction of no characters written as a content section
PdfBody_EmptyAsContent(file, i) ==
    CASE file.pdf \in {"text", "empty"} -> << T("pdfText", i) >>
      [] file.pdf = "blank"      -> << T("pdfTextBlank", i) >>
      [] file.pdf = "badData"    -> << T("pdfBadData", i) >>
      [] OTHER                   -> << T("pdfError", i) >>

PdfBody(file, i) ==
    CASE file.pdf = "text"       -> << T("pdfText", i) >>
      [] file.pdf = "blank"      -> << T("pdfTextBlank", i) >>
      [] file.pdf = "empty"      -> << T("pdfImageHint", i) >>
      [] file.pdf = "badData"    -> << T("pdfBadData", i) >>
      [] OTHER                   -> << T("pdfError", i) >>

FileFragment(file, i) ==
    IF IsTextLike(file)
    THEN << T("fileHeader", i), T("fileType", i), T("fileData", i), T("fileEnd", i) >>
    ELSE IF IsImage(file)
    THEN << T("imagePlaceholder", i) >>
    ELSE IF IsPdf(file)
    THEN << T("pdfHeader", i) >> \o PdfBody(file, i) \o << T("fileEnd", i) >>
    ELSE << T("filePlaceholder", i) >>

\* the attachment loop left at the first attachment whose processing fails
fileContext_StopAtFailure(files) ==
    LET failed == { i \in 1..Len(files) : IsPdf(files[i]) /\ ~IsTextLike(files[i])
                                            /\ files[i].pdf \in {"parseError", "noBase64"} }
        last == IF failed = {} THEN Len(files)
                ELSE CHOOSE i \in failed : \A j \in failed : i <= j
    IN  << T("filesIntro", 0) >> \o Concat([i \in 1..last |-> FileFragment(files[i], i)])

fileContext(files) ==
    << T("filesIntro", 0) >> \o Concat([i \in 1..Len(files) |-> FileFragment(files[i], i)])

\* enhancedMessage after the attachment block
WithFiles(r) ==
    LET message == << T("message", 0) >>
    IN  IF Len(r.files) > 0 THEN message \o fileContext(r.files) ELSE message

----------------------------------------------------------------------------
(* Knowledge block *)

\* if (useKnowledge) in place of if (useKnowledge === true)
KnowledgeEnabled_Truthy(useKnowledge) == useKnowledge \in {"true", "string"}

\* if (useKnowledge === true)
KnowledgeEnabled(useKnowledge) == useKnowledge = "true"

\* what generateContext returns: a context string, "", or undefined
GenerateResults == {"context", "empty", "undefined"}

\* the knowledge text put in front of the message in place of appended to it
WithKnowledge_Prepend(em, knowledgeContext) ==
    IF knowledgeContext = "context" THEN << T("knowledge", 0) >> \o em ELSE em

\* if (knowledgeContext !== undefined): an empty context still adds its section
WithKnowledge_EmptySection(em, knowledgeContext) ==
    IF knowledgeContext # "undefined" THEN em \o << T("knowledge", 0) >> ELSE em

\* if (knowledgeContext) enhancedMessage += knowledgeContext
WithKnowledge(em, knowledgeContext) ==
    IF knowledgeContext = "context" THEN em \o << T("knowledge", 0) >> ELSE em

----------------------------------------------------------------------------
(* User profile *)

\* userProfile && userProfile.context && userProfile.context.trim() !== ''
\* the test of the context without its trim(): white space counts as a context
HasProfileContext_NoTrim(profile) == profile \in {"full", "blankContext"}

HasProfileContext(profile) == profile = "full"

WithProfile(em, profile) ==
    IF HasProfileContext(profile)
    THEN << T("profile", 0), T("blankLine", 0) >> \o em
    ELSE em

----------------------------------------------------------------------------
(* Prompt construction of the adapters *)

OllamaLine(msg) ==
    IF msg.role = "user" THEN << T("User: ", 0), T("content", msg.content), T("nl", 0) >>
    ELSE IF msg.role = "assistant"
    THEN << T("Assistant: ", 0), T("content", msg.content), T("nl", 0) >>
    ELSE <<>>

\* formatPrompt with the window dropped: the whole history is flattened
formatPrompt_NoWindow(message, history) ==
    enhancePrompt(message) \o << T("blankLine", 0) >>
    \o Concat([i \in 1..Len(history) |-> OllamaLine(history[i])])
    \o << T("User: ", 0) >> \o message \o << T("nl", 0), T("Assistant: ", 0) >>

formatPrompt(message, history) ==
    LET recentHistory == SliceLast(history, OllamaHistoryWindow)
    IN  enhancePrompt(message) \o << T("blankLine", 0) >>
        \o Concat([i \in 1..Len(recentHistory) |-> OllamaLine(recentHistory[i])])
        \o << T("User: ", 0) >> \o message \o << T("nl", 0), T("Assistant: ", 0) >>

GeminiLine(msg) ==
    IF msg.role = "user" THEN << T("gUser: ", 0), T("content", msg.content), T("nl", 0) >>
    ELSE IF msg.role = "assistant"
    THEN << T("gAssistant: ", 0), T("content", msg.content), T("nl", 0) >>
    ELSE <<>>

\* the Gemini prompt with slice(0, 10) in place of slice(-10): the oldest entries
geminiFullPrompt_OldestFirst(message, history) ==
    LET recentHistory == SubSeq(history, 1, Min(GeminiHistoryWindow, Len(history)))
    IN  enhancePrompt(message)
        \o (IF Len(recentHistory) > 0
            THEN << T("historyIntro", 0) >>
                 \o Concat([i \in 1..Len(recentHistory) |-> GeminiLine(recentHistory[i])])
                 \o << T("nl", 0) >>
            ELSE <<>>)
        \o << T("gUser: ", 0) >> \o message \o << T("nl", 0), T("gAssistant: ", 0) >>

geminiFullPrompt(message, history) ==
    LET recentHistory == SliceLast(history, GeminiHistoryWindow)
        historyPart ==
            IF Len(recentHistory) > 0
            THEN << T("historyIntro", 0) >>
                 \o Concat([i \in 1..Len(recentHistory) |-> GeminiLine(recentHistory[i])])
                 \o << T("nl", 0) >>
            ELSE <<>>
    IN  enhancePrompt(message) \o historyPart
        \o << T("gUser: ", 0) >> \o message \o << T("nl", 0), T("gAssistant: ", 0) >>

openaiMessages(message, history) ==
    << [role |-> "system", content |-> enhancePrompt(message)] >>
    \o [i \in 1..Len(history) |-> [role |-> history[i].role,
                                   content |-> << T("content", history[i].content) >>]]
    \o << [role |-> "user", content |-> message] >>

\* what the adapter of provider prov sends for the augmented message
BuildBackendReq(prov, message, history) ==
    CASE prov = "gemini" -> [provider |-> prov, messages |-> <<>>,
                             prompt |-> geminiFullPrompt(message, history)]
      [] prov = "openai" -> [provider |-> prov, prompt |-> <<>>,
                             messages |-> openaiMessages(message, history)]
      [] OTHER           -> [provider |-> prov, messages |-> <<>>,
                             prompt |-> formatPrompt(message, history)]

----------------------------------------------------------------------------
(* The response object *)

NewRes == [frames |-> <<>>, ended |-> FALSE]

\* res.write(frame): the frame is recorded; late marks a write after res.end()
Write(r, kind, msg) ==
    [r EXCEPT !.frames = Append(@, [kind |-> kind, msg |-> msg, late |-> r.ended])]

End(r) == [r EXCEPT !.ended = TRUE]

\* calls seen by the knowledge collaborator, and what it gave back: the value
\* generateContext returned, or "threw" when one of its calls threw or rejected
ZeroCalls == [ctor |-> 0, load |-> 0, search |-> 0, generate |-> 0, returned |-> "none"]

Threw(calls) == [calls EXCEPT !.returned = "threw"]

NoLoader == [constructed |-> FALSE, documents |-> 0]

\* clients of the knowledge endpoints
ClientIds == 1..MaxClients

NoClient == [kind |-> "none", pc |-> "idle", status |-> 0, file |-> "", wrote |-> FALSE]

NoWorker == [pc |-> "idle"]

\* the suffix decision of the persona at its two hooks: the tone directive put in
\* the preamble, and whether the reply got the suffix; "none" where the hook did not run
PromptDraws == {"suffix", "plain"}

ResponseDraws == {"suffix", "plain"}

NoPersona == [flag |-> "none", prompt |-> "none", response |-> "none"]

\* lines delivered by the backend stream: well-formed lines carrying text, well-formed
\* lines carrying the done marker, whether a malformed line was among them, and
\* whether a well-formed line carrying text or the marker came after a malformed one
NothingDelivered == [text |-> 0, done |-> 0, malformed |-> FALSE, after |-> FALSE]

----------------------------------------------------------------------------
Init ==
    /\ pc = "idle"
    /\ req = NoReq
    /\ enhancedMessage = <<>>
    /\ provider = "none"
    /\ backendReq = NoBackendReq
    /\ requests = 0
    /\ res = NewRes
    /\ stream = "none"
    /\ chunks = 0
    /\ unhandled = FALSE
    /\ knowledgeLoader = NoLoader
    /\ kbCalls = ZeroCalls
    /\ delivered = NothingDelivered
    /\ clientGone = FALSE
    /\ persona = NoPersona
    /\ geminiKey \in BOOLEAN
    /\ genAI = geminiKey
    /\ openaiKey \in BOOLEAN
    /\ clients = [c \in ClientIds |-> NoClient]
    /\ kbLog = [assigned |-> 0, initialLoads |-> 0]
    /\ knowledgeDir = {}
    /\ worker = NoWorker

----------------------------------------------------------------------------
(* POST /api/chat: from the request to the first await of the adapter *)

\* the handler's state up to the point where it suspends or returns
Handler(newpc, r, em, prov, breq, nreq, newres, kl, calls) ==
    /\ pc' = newpc
    /\ req' = r
    /\ enhancedMessage' = em
    /\ provider' = prov
    /\ backendReq' = breq
    /\ requests' = nreq
    /\ res' = newres
    /\ knowledgeLoader' = kl
    /\ kbCalls' = calls
    /\ stream' = "none"
    /\ chunks' = 0
    /\ unhandled' = FALSE
    /\ delivered' = NothingDelivered
    /\ clientGone' = FALSE
    /\ UNCHANGED <<genAI, openaiKey,
                   geminiKey, sideVars>>

\* catch (error) of the handler: one error frame, then res.end()
Catch(r, prov, kl, calls, msg) ==
    Handler("failed", r, <<>>, prov, NoBackendReq, 0, End(Write(NewRes, "error", msg)), kl, calls)

handleGeminiChat(r, message, kl, calls) ==
    IF ~genAI
    THEN Catch(r, "gemini", kl, calls, "Gemini API key not configured")
    ELSE Handler("sending", r, <<>>, "gemini",
                 BuildBackendReq("gemini", message, History(r.histLen)),
                 1, NewRes, kl, calls)

\* handleOpenAIChat without its test of OPENAI_API_KEY: the request goes out unsigned
handleOpenAIChat_NoKeyCheck(r, message, kl, calls) ==
    Handler("sending", r, <<>>, "openai",
            BuildBackendReq("openai", message, History(r.histLen)),
            1, NewRes, kl, calls)

handleOpenAIChat(r, message, kl, calls) ==
    IF ~openaiKey
    THEN Catch(r, "openai", kl, calls, "OpenAI API key not configured")
    ELSE Handler("sending", r, <<>>, "openai",
                 BuildBackendReq("openai", message, History(r.histLen)),
                 1, NewRes, kl, calls)

handleOllamaChat(r, message, kl, calls) ==
    Handler("sending", r, <<>>, "ollama",
            BuildBackendReq("ollama", message, History(r.histLen)),
            1, NewRes, kl, calls)

\* user profile, routing and the call of the adapter
Dispatch(r, em, kl, calls) ==
    LET message == WithProfile(em, r.profile)
        prov == getProviderFromModel(r.model)
    IN  CASE prov = "gemini" -> handleGeminiChat(r, message, kl, calls)
          [] prov = "openai" -> handleOpenAIChat(r, message, kl, calls)
          [] prov = "ollama" -> handleOllamaChat(r, message, kl, calls)
          [] OTHER           -> Catch(r, "none", kl, calls, "Unknown provider")

\* searchDocuments and generateContext, either of which may throw
SearchAndGenerate(r, em, kl, calls) ==
    LET searched == [calls EXCEPT !.search = @ + 1]
        generated == [searched EXCEPT !.generate = @ + 1]
    IN  \/ Catch(r, "none", kl, Threw(searched), "searchDocuments failed")
        \/ Catch(r, "none", kl, Threw(generated), "generateContext failed")
        \/ \E knowledgeContext \in GenerateResults :
              Dispatch(r, WithKnowledge(em, knowledgeContext), kl,
                       [generated EXCEPT !.returned = knowledgeContext])

\* if (knowledgeLoader.documents.length === 0) await loadDocuments()
LoadIfEmpty(r, em, kl, calls) ==
    IF kl.documents = 0
    THEN Handler("loading", r, em, "none", NoBackendReq, 0, NewRes, kl,
                 [calls EXCEPT !.load = @ + 1])
    ELSE SearchAndGenerate(r, em, kl, calls)

KnowledgeBlock(r, em) ==
    IF ~knowledgeLoader.constructed
    THEN LET calls == [ZeroCalls EXCEPT !.ctor = 1]
             built == [knowledgeLoader EXCEPT !.constructed = TRUE]
         IN  \/ Catch(r, "none", knowledgeLoader, Threw(calls), "knowledge loader failed")
             \/ Catch(r, "none", built, Threw(calls), "knowledge loader initialize failed")
             \/ LoadIfEmpty(r, em, built, calls)
    ELSE LoadIfEmpty(r, em, knowledgeLoader, ZeroCalls)

ChatRequest ==
    /\ pc = "idle"
    /\ \E r \in Requests :
          IF KnowledgeEnabled(r.useKnowledge)
          THEN KnowledgeBlock(r, WithFiles(r))
          ELSE Dispatch(r, WithFiles(r), knowledgeLoader, ZeroCalls)
    /\ persona' = NoPersona

\* a request of the attachment inputs, handled by the same handler
AttachmentRequest ==
    /\ pc = "idle"
    /\ \E r \in AttachmentRequests :
          IF KnowledgeEnabled(r.useKnowledge)
          THEN KnowledgeBlock(r, WithFiles(r))
          ELSE Dispatch(r, WithFiles(r), knowledgeLoader, ZeroCalls)
    /\ persona' = NoPersona

\* a request of the persona inputs, handled by the same handler, which does not read
\* usePersonality; the preamble's tone directive is drawn when the adapter calls
\* enhancePrompt
PersonaRequest ==
    /\ pc = "idle"
    /\ \E r \in PersonaRequests :
          /\ Dispatch(r, WithFiles(r), knowledgeLoader, ZeroCalls)
          /\ IF pc' = "sending"
             THEN \E draw \in PromptDraws :
                     persona' = [flag |-> r.usePersonality, prompt |-> draw,
                                 response |-> "none"]
             ELSE persona' = [NoPersona EXCEPT !.flag = r.usePersonality]

\* loadDocuments settles: it read d documents, or it rejected
LoadDocumentsDone ==
    /\ pc = "loading"
    /\ \/ \E d \in 0..1 :
             SearchAndGenerate(req, enhancedMessage,
                               [knowledgeLoader EXCEPT !.documents = d], kbCalls)
       \/ Catch(req, "none", knowledgeLoader, Threw(kbCalls), "loadDocuments failed")
    /\ persona' = NoPersona

----------------------------------------------------------------------------
(* The backend answers *)

\* the handler has returned: its locals are gone, the request is consumed, and the
\* record of its calls to the knowledge collaborator goes with them
Returned ==
    /\ req' = NoReq
    /\ backendReq' = NoBackendReq
    /\ kbCalls' = ZeroCalls
    /\ UNCHANGED <<enhancedMessage, provider, requests, knowledgeLoader,
                   delivered, clientGone, genAI, openaiKey, chunks,
                   geminiKey, sideVars>>

\* the returned text written as it came, without the response phase of the persona
GeminiResolves_RawText ==
    /\ pc = "sending" /\ provider = "gemini" /\ stream = "none"
    /\ pc' = "done"
    /\ res' = End(Write(Write(res, "content", "text"), "done", ""))
    /\ \E draw \in ResponseDraws : persona' = [persona EXCEPT !.response = draw]
    /\ UNCHANGED <<stream, unhandled>>
    /\ Returned

\* generateContent resolves: one content frame carrying processResponse(message, text),
\* the done frame, res.end()
GeminiResolves ==
    /\ pc = "sending" /\ provider = "gemini" /\ stream = "none"
    /\ pc' = "done"
    /\ res' = End(Write(Write(res, "content", "processResponse"), "done", ""))
    /\ \E draw \in ResponseDraws : persona' = [persona EXCEPT !.response = draw]
    /\ UNCHANGED <<stream, unhandled>>
    /\ Returned

\* the adapter's catch writes its error frame and throws on to the handler's catch
GeminiRejects_Rethrow ==
    /\ pc = "sending" /\ provider = "gemini" /\ stream = "none"
    /\ pc' = "failed"
    /\ res' = End(Write(End(Write(res, "error", "Gemini API error")),
                        "error", "Gemini API error"))
    /\ UNCHANGED <<stream, unhandled, persona>>
    /\ Returned

\* generateContent rejects: the adapter's own catch writes the error frame
GeminiRejects ==
    /\ pc = "sending" /\ provider = "gemini" /\ stream = "none"
    /\ pc' = "failed"
    /\ res' = End(Write(res, "error", "Gemini API error"))
    /\ UNCHANGED <<stream, unhandled, persona>>
    /\ Returned

\* axios.post resolves with a 2xx status: the data listener is registered
AxiosResolves ==
    /\ pc = "sending" /\ provider \in {"openai", "ollama"} /\ stream = "none"
    /\ pc' = "streaming"
    /\ stream' = "open"
    /\ UNCHANGED <<res, unhandled, persona>>
    /\ Returned

\* error.message of a rejected axios.post: a status outside 2xx, or no connection
AxiosErrors == {"Request failed with status code 401", "connect ECONNREFUSED"}

\* a rejected axios.post tried once more before the handler's catch is reached
AxiosRejects_Retry ==
    /\ pc = "sending" /\ provider \in {"openai", "ollama"} /\ stream = "none"
    /\ IF requests < 2
       THEN /\ requests' = requests + 1
            /\ UNCHANGED <<pc, res, req, backendReq>>
       ELSE /\ pc' = "failed"
            /\ \E message \in AxiosErrors : res' = End(Write(res, "error", message))
            /\ req' = NoReq
            /\ backendReq' = NoBackendReq
            /\ UNCHANGED requests
    /\ UNCHANGED <<enhancedMessage, provider, stream, chunks, unhandled, knowledgeLoader,
                   kbCalls, delivered, clientGone, persona, genAI, openaiKey,
                   geminiKey, sideVars>>

\* axios.post rejects (bad status, no connection): the handler's catch
AxiosRejects ==
    /\ pc = "sending" /\ provider \in {"openai", "ollama"} /\ stream = "none"
    /\ pc' = "failed"
    /\ \E message \in AxiosErrors : res' = End(Write(res, "error", message))
    /\ UNCHANGED <<stream, unhandled, persona>>
    /\ Returned

----------------------------------------------------------------------------
(* Data events of the backend stream *)

\* lines of the local backend, after split('\n')
OllamaLineKinds == {"response", "done", "responseDone", "other", "malformed", "blank"}

\* lines of the chat-completions backend, after split('\n')
OpenAILineKinds == {"content", "emptyDelta", "DONE", "malformed", "comment", "blank"}

ChunksOf(kinds) == UNION { [1..n -> kinds] : n \in 1..MaxLines }

\* .filter(line => line.trim())
NonBlank(lines) == SelectSeq(lines, LAMBDA l : l # "blank")

\* the for loop of the local adapter; JSON.parse throws out of the loop
RECURSIVE OllamaLoop(_, _)
OllamaLoop(r, lines) ==
    IF lines = <<>> THEN r
    ELSE LET line == Head(lines)
         IN  IF line = "malformed" THEN r
             ELSE LET r1 == IF line \in {"response", "responseDone"}
                            THEN Write(r, "content", "") ELSE r
                      r2 == IF line \in {"done", "responseDone"}
                            THEN End(Write(r1, "done", "")) ELSE r1
                  IN  OllamaLoop(r2, Tail(lines))

\* the chat-completions loop with its try around the whole loop, as in the local
\* adapter: a malformed payload ends the chunk
RECURSIVE OpenAILoop_AbortChunk(_, _)
OpenAILoop_AbortChunk(r, lines) ==
    IF lines = <<>> THEN r
    ELSE LET line == Head(lines)
         IN  IF line = "malformed" THEN r
             ELSE OpenAILoop_AbortChunk(
                      CASE line = "DONE"    -> End(Write(r, "done", ""))
                        [] line = "content" -> Write(r, "content", "")
                        [] OTHER            -> r,
                      Tail(lines))

\* the for loop of the chat-completions adapter; JSON.parse is caught per line
RECURSIVE OpenAILoop(_, _)
OpenAILoop(r, lines) ==
    IF lines = <<>> THEN r
    ELSE LET line == Head(lines)
             r1 == CASE line = "DONE"    -> End(Write(r, "done", ""))
                     [] line = "content" -> Write(r, "content", "")
                     [] OTHER            -> r
         IN  OpenAILoop(r1, Tail(lines))

\* the lines of a chunk added to what was delivered so far
RECURSIVE Deliver(_, _, _, _)
Deliver(d, lines, textKinds, doneKinds) ==
    IF lines = <<>> THEN d
    ELSE LET line == Head(lines)
             d1 == IF line = "malformed" THEN [d EXCEPT !.malformed = TRUE]
                   ELSE [d EXCEPT !.text = IF line \in textKinds THEN @ + 1 ELSE @,
                                  !.done = IF line \in doneKinds THEN @ + 1 ELSE @,
                                  !.after = @ \/ (d.malformed /\ line \in textKinds \cup doneKinds)]
         IN  Deliver(d1, Tail(lines), textKinds, doneKinds)

\* response.data.on('data', ...) of the local adapter
OllamaData ==
    /\ stream = "open" /\ provider = "ollama"
    /\ chunks < MaxChunks
    /\ \E chunk \in ChunksOf(OllamaLineKinds) :
          /\ res' = OllamaLoop(res, NonBlank(chunk))
          /\ delivered' = Deliver(delivered, NonBlank(chunk),
                                  {"response", "responseDone"}, {"done", "responseDone"})
    /\ chunks' = chunks + 1
    /\ pc' = IF res'.ended THEN "done" ELSE pc
    /\ UNCHANGED <<req, enhancedMessage, provider, backendReq, requests, stream,
                   unhandled, knowledgeLoader, kbCalls, clientGone, persona, genAI, openaiKey,
                   geminiKey, sideVars>>

\* response.data.on('data', ...) of the chat-completions adapter
OpenAIData ==
    /\ stream = "open" /\ provider = "openai"
    /\ chunks < MaxChunks
    /\ \E chunk \in ChunksOf(OpenAILineKinds) :
          /\ res' = OpenAILoop(res, NonBlank(chunk))
          /\ delivered' = Deliver(delivered, NonBlank(chunk), {"content"}, {"DONE"})
    /\ chunks' = chunks + 1
    /\ pc' = IF res'.ended THEN "done" ELSE pc
    /\ UNCHANGED <<req, enhancedMessage, provider, backendReq, requests, stream,
                   unhandled, knowledgeLoader, kbCalls, clientGone, persona, genAI, openaiKey,
                   geminiKey, sideVars>>

\* the backend stream ends: neither adapter listens for 'end'
StreamEnd ==
    /\ stream = "open"
    /\ stream' = "ended"
    /\ UNCHANGED <<pc, req, enhancedMessage, provider, backendReq, requests, res,
                   chunks, unhandled, knowledgeLoader, kbCalls, delivered, clientGone,
                   persona, genAI, openaiKey,
                   geminiKey, sideVars>>

\* variant: an 'error' listener that reports the failure on the open response
StreamError_WritesErrorFrame ==
    /\ stream = "open"
    /\ stream' = "errored"
    /\ res' = IF res.ended THEN res ELSE End(Write(res, "error", "stream error"))
    /\ UNCHANGED <<pc, req, enhancedMessage, provider, backendReq, requests,
                   chunks, unhandled, knowledgeLoader, kbCalls, delivered, clientGone,
                   persona, genAI, openaiKey,
                   geminiKey, sideVars>>

\* the backend stream emits 'error': neither adapter listens for it
StreamError ==
    /\ stream = "open"
    /\ stream' = "errored"
    /\ unhandled' = TRUE
    /\ UNCHANGED <<pc, req, enhancedMessage, provider, backendReq, requests, res,
                   chunks, knowledgeLoader, kbCalls, delivered, clientGone,
                   persona, genAI, openaiKey,
                   geminiKey, sideVars>>

\* the backend goes silent: the request is never answered, or the open stream sends
\* nothing more and never ends; no call of an adapter sets a timeout
BackendStalls ==
    /\ \/ pc = "sending" /\ stream = "none"
       \/ pc = "streaming" /\ stream = "open"
    /\ stream' = "stalled"
    /\ UNCHANGED <<pc, req, enhancedMessage, provider, backendReq, requests, res,
                   chunks, unhandled, knowledgeLoader, kbCalls, delivered, clientGone,
                   persona, genAI, openaiKey,
                   geminiKey, sideVars>>

\* the caller closes its connection while the turn streams: the handler registers
\* no 'close' listener on req or res, so nothing of the turn changes
ClientDisconnect ==
    /\ pc = "streaming"
    /\ ~clientGone
    /\ clientGone' = TRUE
    /\ UNCHANGED <<pc, req, enhancedMessage, provider, backendReq, requests, res, stream,
                   chunks, unhandled, knowledgeLoader, kbCalls, delivered, persona, genAI, openaiKey,
                   geminiKey, sideVars>>

\* the turn is over for the server; the next request arrives
NextTurn ==
    /\ \/ pc \in {"done", "failed"} /\ stream # "open"
       \/ pc = "streaming" /\ stream = "ended"
    /\ ~unhandled
    /\ pc' = "idle"
    /\ req' = NoReq
    /\ enhancedMessage' = <<>>
    /\ provider' = "none"
    /\ backendReq' = NoBackendReq
    /\ requests' = 0
    /\ res' = NewRes
    /\ stream' = "none"
    /\ chunks' = 0
    /\ kbCalls' = ZeroCalls
    /\ delivered' = NothingDelivered
    /\ clientGone' = FALSE
    /\ persona' = NoPersona
    /\ UNCHANGED <<unhandled, knowledgeLoader, genAI, openaiKey,
                   geminiKey, sideVars>>

Next ==
    \/ ChatRequest
    \/ LoadDocumentsDone
    \/ GeminiResolves
    \/ GeminiRejects
    \/ AxiosResolves
    \/ AxiosRejects
    \/ OllamaData
    \/ OpenAIData
    \/ StreamEnd
    \/ StreamError
    \/ NextTurn

Spec == Init /\ [][Next]_vars

\* the same server with the two faults of its surroundings: a backend that goes
\* silent and a caller that goes away
NextWithFaults ==
    \/ Next
    \/ BackendStalls
    \/ ClientDisconnect

SpecWithFaults == Init /\ [][NextWithFaults]_vars

\* the server under requests that differ in their attachments
NextAttachments ==
    \/ AttachmentRequest
    \/ LoadDocumentsDone
    \/ GeminiResolves
    \/ GeminiRejects
    \/ AxiosResolves
    \/ AxiosRejects
    \/ OllamaData
    \/ OpenAIData
    \/ StreamEnd
    \/ StreamError
    \/ NextTurn

SpecAttachments == Init /\ [][NextAttachments]_vars

\* the server under requests that differ in their usePersonality flag
NextPersona ==
    \/ PersonaRequest
    \/ GeminiResolves
    \/ GeminiRejects
    \/ AxiosResolves
    \/ AxiosRejects
    \/ OllamaData
    \/ OpenAIData
    \/ StreamEnd
    \/ StreamError
    \/ NextTurn

SpecPersona == Init /\ [][NextPersona]_vars

----------------------------------------------------------------------------
(* Frames of the turn *)

IsTerminal(f) == f.kind \in {"done", "error"}

TerminalFrames(r) == { i \in 1..Len(r.frames) : IsTerminal(r.frames[i]) }

LateFrames(r) == { i \in 1..Len(r.frames) : r.frames[i].late }

----------------------------------------------------------------------------
(* C1: in every turn, on every adapter, at most one terminal frame (done   *)
(* or error) is written, and once the terminal frame is written and the    *)
(* output closed by res.end(), no further frame of any kind is written,    *)
(* whatever the backend delivers afterwards.                               *)
(* The adapters' loops keep running after res.end(): a line that follows   *)
(* the terminal marker is still written.                                   *)
C1_OneTerminalFrameNoWriteAfterEnd ==
    /\ Cardinality(TerminalFrames(res)) <= 1
    /\ LateFrames(res) = {}

(* C2: on the local and the chat-completions adapter, once the backend     *)
(* response stream has ended, a terminal frame has been written and the    *)
(* output has been closed, however the stream ended.                       *)
(* Neither adapter listens for 'end': a stream that ends without its done  *)
(* marker leaves the output open.                                          *)
C2_StreamEndClosesOutput ==
    stream = "ended" => (res.ended /\ TerminalFrames(res) # {})

(* C3: an error event on the backend response stream, after streaming      *)
(* began, is surfaced as the turn's terminal error frame followed by       *)
(* close, never as an unhandled fault.                                     *)
(* Neither adapter listens for 'error' on response.data.                   *)
C3_StreamErrorSurfaced ==
    stream = "errored" =>
        /\ ~unhandled
        /\ res.ended
        /\ \E i \in 1..Len(res.frames) : res.frames[i].kind = "error"

----------------------------------------------------------------------------
(* What the backend is sent *)

\* the history entries in a text, in the order they appear
ContentIds(text) ==
    LET cs == SelectSeq(text, LAMBDA t : t.k = "content")
    IN  [i \in 1..Len(cs) |-> cs[i].a]

\* the positions n-k+1 .. n, in order
LastIds(n, k) == [j \in 1..k |-> n - k + j]

\* the text carrying the augmented message of the turn
SentText(breq) ==
    IF breq.provider = "openai" THEN breq.messages[Len(breq.messages)].content
    ELSE breq.prompt

(* C4: the message list of the chat-completions adapter holds, between the *)
(* system persona message and the current user message, exactly the last  *)
(* min(10, n) history entries, in original order.                          *)
(* The adapter maps the whole history: an 11-entry history sends 11.       *)
C4_OpenAIHistoryWindow ==
    backendReq.provider = "openai" =>
        LET m == backendReq.messages
            n == req.histLen
            k == Min(10, n)
        IN  /\ Len(m) = k + 2
            /\ m[1].role = "system"
            /\ m[Len(m)].role = "user"
            /\ \A j \in 1..k :
                  /\ m[1 + j].role = HistoryEntry(n - k + j).role
                  /\ m[1 + j].content = << T("content", n - k + j) >>

(* C5: the transcript of the local adapter holds exactly the last          *)
(* min(6, n) history entries, in original order, each tagged with its      *)
(* role, followed by the current turn as User: <message>, new line,        *)
(* Assistant: .                                                            *)
C5_OllamaTranscript ==
    backendReq.provider = "ollama" =>
        LET p == backendReq.prompt
            n == req.histLen
            k == Min(6, n)
            tag(i) == IF HistoryEntry(i).role = "user" THEN "User: " ELSE "Assistant: "
            \* the transcript starts after the preamble and its blank line
            line(j) == SubSeq(p, 3 * j, 3 * j + 2)
            turn == SubSeq(p, 3 * k + 3, Len(p))
        IN  /\ ContentIds(p) = LastIds(n, k)
            /\ \A j \in 1..k :
                  line(j) = << T(tag(n - k + j), 0), T("content", n - k + j), T("nl", 0) >>
            /\ Len(turn) >= 4
            /\ Head(turn) = T("User: ", 0)
            /\ Has(turn, "message")
            /\ ~Has(turn, "content")
            /\ SubSeq(turn, Len(turn) - 1, Len(turn)) = << T("nl", 0), T("Assistant: ", 0) >>

C5_Witness ==
    /\ backendReq.provider = "ollama"
    /\ req.histLen > 6
    /\ ContentIds(backendReq.prompt) = LastIds(req.histLen, 6)

(* C6: the prompt of the Gemini adapter holds at most the 10 most recent   *)
(* history entries, in original order; no entry older than the last 10     *)
(* reaches the backend.                                                    *)
C6_GeminiHistoryWindow ==
    backendReq.provider = "gemini" =>
        LET ids == ContentIds(backendReq.prompt)
            n == req.histLen
        IN  /\ Len(ids) <= 10
            /\ \A i \in 1..Len(ids) : ids[i] > n - 10 /\ ids[i] <= n
            /\ \A i \in 1..(Len(ids) - 1) : ids[i] < ids[i + 1]

C6_Witness ==
    /\ backendReq.provider = "gemini"
    /\ req.histLen > 10
    /\ Len(ContentIds(backendReq.prompt)) = 10

----------------------------------------------------------------------------
(* Augmentation *)

\* messages of the error frames that report a failure of the knowledge collaborator
KnowledgeFailures ==
    { "knowledge loader failed", "knowledge loader initialize failed",
      "loadDocuments failed", "searchDocuments failed", "generateContext failed" }

(* C7: when the knowledge collaborator fails in a turn with useKnowledge   *)
(* true (construction, loadDocuments, searchDocuments or generateContext   *)
(* throws or rejects), the turn goes on without a knowledge section: the   *)
(* provider adapter is still invoked and the failure is not the turn's     *)
(* terminal error frame.                                                   *)
(* The knowledge block has no try/catch of its own: the failure reaches    *)
(* the handler's catch, which writes the error frame and ends the turn.    *)
C7_KnowledgeFailureDegrades ==
    kbCalls.returned = "threw" =>
        /\ provider # "none"
        /\ \A i \in 1..Len(res.frames) :
              res.frames[i].kind = "error" => res.frames[i].msg \notin KnowledgeFailures

\* position of the last attachment token in a text, 0 when there is none
LastFileIndex(t) ==
    LET fs == { i \in 1..Len(t) :
                  t[i].k \in {"filesIntro", "fileHeader", "fileType", "fileData", "fileEnd",
                              "imagePlaceholder", "pdfHeader", "pdfText", "pdfTextBlank",
                              "pdfImageHint",
                              "pdfBadData", "pdfError", "filePlaceholder"} }
    IN  IF fs = {} THEN 0 ELSE CHOOSE i \in fs : \A j \in fs : j <= i

(* C8 as stated: the sections of the augmented prompt come in the order    *)
(* knowledge excerpt, attachment text, user-profile line, current turn     *)
(* text, whenever present; the profile line directly precedes the turn     *)
(* text and knowledge and attachment content precede the profile line.     *)
C8_SectionOrder_Stated ==
    backendReq.provider # "none" =>
        LET t == SentText(backendReq)
            k == IndexOf(t, "knowledge")
            f == IndexOf(t, "filesIntro")
            p == IndexOf(t, "profile")
            m == IndexOf(t, "message")
        IN  /\ m # 0
            /\ (k # 0 /\ f # 0) => k < f
            /\ (f # 0 /\ p # 0) => LastFileIndex(t) < p
            /\ (k # 0 /\ p # 0) => k < p
            /\ k # 0 => k < m
            /\ f # 0 => LastFileIndex(t) < m
            /\ p # 0 => (p < m /\ \A i \in (p + 1)..(m - 1) : t[i].k = "blankLine")

(* C8, amended: the sections of the augmented prompt come in the order     *)
(* user-profile line, current turn text, attachment text, knowledge        *)
(* excerpt, whenever present; the profile line directly precedes the turn  *)
(* text, and attachment and knowledge content follow the turn text.        *)
C8_SectionOrder ==
    backendReq.provider # "none" =>
        LET t == SentText(backendReq)
            k == IndexOf(t, "knowledge")
            f == IndexOf(t, "filesIntro")
            p == IndexOf(t, "profile")
            m == IndexOf(t, "message")
        IN  /\ m # 0
            /\ p # 0 => (p < m /\ \A i \in (p + 1)..(m - 1) : t[i].k = "blankLine")
            /\ f # 0 => m < f
            /\ k # 0 => m < k
            /\ (f # 0 /\ k # 0) => LastFileIndex(t) < k

C8_Witness ==
    /\ backendReq.provider # "none"
    /\ Has(SentText(backendReq), "knowledge")
    /\ Has(SentText(backendReq), "filesIntro")
    /\ Has(SentText(backendReq), "profile")
    /\ IndexOf(SentText(backendReq), "message") < IndexOf(SentText(backendReq), "knowledge")

(* C9: in a turn whose useKnowledge flag is not the boolean true, the      *)
(* knowledge collaborator is never touched: the loader is not constructed  *)
(* and loadDocuments, searchDocuments and generateContext are called zero  *)
(* times.                                                                  *)
C9_NoKnowledgeCallsWhenDisabled ==
    (req # NoReq /\ req.useKnowledge # "true") => kbCalls = ZeroCalls

C9_Witness ==
    /\ pc = "sending"
    /\ req.useKnowledge = "string"
    /\ kbCalls = ZeroCalls

(* C10: in a turn with useKnowledge true whose retrieval yields nothing    *)
(* (generateContext returns an empty or absent context), the request sent  *)
(* is the one the same turn gets with useKnowledge false: no knowledge     *)
(* section, marker or empty section is added.                              *)
C10_EmptyRetrievalAddsNothing ==
    (backendReq.provider # "none" /\ kbCalls.returned \in {"empty", "undefined"}) =>
        /\ ~Has(SentText(backendReq), "knowledge")
        /\ backendReq = BuildBackendReq(backendReq.provider,
                                        WithProfile(WithFiles(req), req.profile),
                                        History(req.histLen))

C10_Witness ==
    /\ backendReq.provider # "none"
    /\ req.useKnowledge = "true"
    /\ kbCalls.generate = 1
    /\ kbCalls.returned = "empty"

----------------------------------------------------------------------------
(* Failures of the provider *)

\* the credential of the adapter the turn was routed to is not configured
CredentialMissing ==
    \/ provider = "gemini" /\ ~genAI
    \/ provider = "openai" /\ ~openaiKey

\* the frames are exactly one error frame with this message, written before close
OnlyErrorFrame(r, msgs) ==
    /\ Len(r.frames) = 1
    /\ r.frames[1].kind = "error"
    /\ r.frames[1].msg \in msgs
    /\ ~r.frames[1].late
    /\ r.ended

(* C11: when the credential of the selected cloud provider is not          *)
(* configured, the turn writes no content frame and exactly one error      *)
(* frame naming the missing configuration, then closes, and no request is  *)
(* issued to that backend.                                                 *)
C11_MissingCredentialFailsBeforeRequest ==
    CredentialMissing =>
        /\ pc = "failed"
        /\ requests = 0
        /\ backendReq = NoBackendReq
        /\ stream = "none"
        /\ OnlyErrorFrame(res, IF provider = "gemini"
                               THEN {"Gemini API key not configured"}
                               ELSE {"OpenAI API key not configured"})

C11_Witness ==
    /\ provider = "openai" /\ ~openaiKey
    /\ pc = "failed"
    /\ Len(res.frames) = 1

(* C12: on every adapter, a backend response with a non-success status     *)
(* gives exactly one terminal error frame and no content or done frame,    *)
(* after which the output is closed.                                       *)
C12_BadStatusGivesOneErrorFrame ==
    (pc = "failed" /\ requests = 1) =>
        OnlyErrorFrame(res, AxiosErrors \cup {"Gemini API error"})

C12_Witness ==
    /\ pc = "failed" /\ requests = 1
    /\ provider = "openai"
    /\ res.frames[1].msg = "Request failed with status code 401"

----------------------------------------------------------------------------
(* Malformed lines *)

\* number of frames of a kind written on the response
CountFrames(r, kind) == Cardinality({ i \in 1..Len(r.frames) : r.frames[i].kind = kind })

(* C13: in the local adapter a response line that fails to parse as JSON   *)
(* is skipped without affecting any other line: every well-formed line,    *)
(* in the same chunk or a later one, is still decoded, so each response    *)
(* text gives a content frame and each done:true line the done frame.      *)
(* JSON.parse sits inside the try that wraps the whole for loop: the lines *)
(* that follow a malformed line in the same chunk are never read.          *)
C13_OllamaMalformedLineSkipped ==
    (provider = "ollama" /\ delivered.malformed) =>
        /\ CountFrames(res, "content") = delivered.text
        /\ CountFrames(res, "done") = delivered.done

(* C14: in the chat-completions adapter an event line whose payload fails  *)
(* to parse as JSON is skipped without affecting any other line: every     *)
(* well-formed event line, in the same chunk or a later one, still gives   *)
(* its content frame, and the [DONE] marker still gives the done frame.    *)
C14_OpenAIMalformedLineSkipped ==
    (provider = "openai" /\ delivered.malformed) =>
        /\ CountFrames(res, "content") = delivered.text
        /\ CountFrames(res, "done") = delivered.done

C14_Witness ==
    /\ provider = "openai"
    /\ delivered.after
    /\ delivered.text >= 1 /\ delivered.done >= 1
    /\ CountFrames(res, "content") = delivered.text
    /\ CountFrames(res, "done") = delivered.done

----------------------------------------------------------------------------
(* Routing *)

Contains(model, fragment) == \E i \in 1..Len(model) : model[i] = fragment

StartsWith(model, fragment) == Len(model) > 0 /\ model[1] = fragment

----------------------------------------------------------------------------
(* The caller goes away *)

(* C16: once the caller has disconnected from a streaming turn, no frame   *)
(* is written for that turn any more, and the turn is failed.              *)
C16_NoOutputAfterDisconnect ==
    [][clientGone => /\ Len(res'.frames) <= Len(res.frames)
                     /\ pc' \in {"failed", "idle"}]_vars

----------------------------------------------------------------------------
(* Bounded wait *)

\* a step of the server that takes the turn to a terminal state
TurnEnds == NextWithFaults /\ pc' \in {"done", "failed"}

(* C17: a turn whose backend has gone silent does not stay in Sending or   *)
(* Streaming: the server has a step of its own (the expiry of a bounded    *)
(* wait) that takes the turn to a terminal state.                          *)
C17_BoundedWait ==
    (stream = "stalled" /\ pc \in {"sending", "streaming"}) => ENABLED TurnEnds

----------------------------------------------------------------------------
(* The Gemini adapter's answer *)

(* C18: a successful Gemini turn has written exactly one content frame,    *)
(* carrying the returned text after the persona's response phase, then     *)
(* exactly one done frame, and has closed the response; nothing else.      *)
C18_GeminiSuccessFrames ==
    (provider = "gemini" /\ pc = "done") =>
        /\ res.frames = << [kind |-> "content", msg |-> "processResponse", late |-> FALSE],
                           [kind |-> "done", msg |-> "", late |-> FALSE] >>
        /\ res.ended

C18_Witness ==
    /\ provider = "gemini" /\ pc = "done"
    /\ CountFrames(res, "content") = 1
    /\ CountFrames(res, "done") = 1

----------------------------------------------------------------------------
(* Requests per turn *)

(* C19: no adapter retries: whatever the outcome of the turn (success, bad *)
(* status, transport error), at most one request has been issued to the    *)
(* backend of the selected provider.                                       *)
C19_AtMostOneBackendRequest ==
    /\ requests <= 1
    /\ pc \in {"sending", "streaming"} => requests = 1

C19_Witness ==
    /\ pc = "failed"
    /\ provider \in {"openai", "ollama"}
    /\ requests = 1
    /\ \E i \in 1..Len(res.frames) : res.frames[i].msg \in AxiosErrors

----------------------------------------------------------------------------
(* Text attachments *)

\* first position of a token in a text, 0 when it is not there
PositionOf(text, token) ==
    IF \E i \in 1..Len(text) : text[i] = token
    THEN CHOOSE i \in 1..Len(text) : text[i] = token /\ \A j \in 1..(i-1) : text[j] # token
    ELSE 0

\* text-like as the contract has it: by declared type or by filename, the declared
\* type possibly absent
TextLikeByTypeOrName(file) ==
    \/ file.type \in {"text/plain", "text/markdown"}
    \/ file.type = "application/json"
    \/ file.ext \in {".md", ".txt"}

(* C20: for every attachment that is text-like (declared type text/..., or *)
(* application/json, or a filename ending in .md or .txt, the declared     *)
(* type possibly absent) the prompt holds its payload between its filename *)
(* header and its end-of-file marker.                                      *)
C20_TextAttachmentVerbatim ==
    backendReq.provider # "none" =>
        \A i \in 1..Len(req.files) :
            TextLikeByTypeOrName(req.files[i]) =>
                LET text == SentText(backendReq)
                    header == PositionOf(text, T("fileHeader", i))
                    data == PositionOf(text, T("fileData", i))
                    end == PositionOf(text, T("fileEnd", i))
                IN  0 < header /\ header < data /\ data < end

----------------------------------------------------------------------------
(* Attachments that fail, PDFs without text *)

\* the attachment reaches the PDF branch and its decoding or its text extraction fails
FailsToExtract(file) ==
    /\ file.type = "application/pdf"
    /\ file.pdf \in {"parseError", "noBase64"}

\* some fragment of attachment i is in the text
HasFragmentOf(text, i) == \E p \in 1..Len(text) : text[p].k # "content" /\ text[p].a = i

\* the turn failed, and for a reason other than its attachments
FailedForOtherReason ==
    \/ CredentialMissing
    \/ kbCalls.returned = "threw"

(* C21: a failure while processing one attachment (PDF decode or text      *)
(* extraction) is recorded as an error fragment of that file only: every   *)
(* other attachment still has its fragment, the adapter is still invoked,  *)
(* and the failure is never the terminal error frame of the turn.          *)
C21_AttachmentFailureIsAFragment ==
    (req # NoReq /\ pc \in {"sending", "failed"}
       /\ \E i \in 1..Len(req.files) : FailsToExtract(req.files[i])) =>
        IF pc = "failed"
        THEN FailedForOtherReason
        ELSE LET text == SentText(backendReq)
             IN  /\ backendReq.provider # "none"
                 /\ requests = 1
                 /\ res.frames = <<>>
                 /\ \A i \in 1..Len(req.files) :
                       /\ HasFragmentOf(text, i)
                       /\ FailsToExtract(req.files[i]) =>
                             /\ 0 < PositionOf(text, T("pdfHeader", i))
                             /\ PositionOf(text, T("pdfHeader", i))
                                   < PositionOf(text, T("pdfError", i))
                             /\ PositionOf(text, T("pdfError", i))
                                   < PositionOf(text, T("fileEnd", i))
                       /\ ~FailsToExtract(req.files[i]) =>
                             PositionOf(text, T("pdfError", i)) = 0

C21_Witness ==
    /\ pc = "sending"
    /\ Len(req.files) = 2
    /\ FailsToExtract(req.files[1])
    /\ req.files[2].type = "text/plain"
    /\ PositionOf(SentText(backendReq), T("pdfError", 1)) > 0
    /\ PositionOf(SentText(backendReq), T("fileData", 2)) > 0

\* the attachment reaches the PDF branch and pdf-parse returns no characters
ExtractsNothing(file) ==
    /\ file.type \in {"application/pdf", "absent"}
    /\ file.ext = ".pdf"
    /\ file.pdf = "empty"

(* C22: for a PDF attachment whose text extraction yields zero characters  *)
(* the fragment is the fixed hint of an image-based PDF, never a content   *)
(* section, and the turn goes on to the provider unless something else     *)
(* fails.                                                                  *)
C22_EmptyPdfGivesHint ==
    (req # NoReq /\ pc \in {"sending", "failed"}) =>
        \A i \in 1..Len(req.files) :
            ExtractsNothing(req.files[i]) =>
                IF pc = "failed"
                THEN FailedForOtherReason
                ELSE LET text == SentText(backendReq)
                     IN  /\ backendReq.provider # "none"
                         /\ 0 < PositionOf(text, T("pdfHeader", i))
                         /\ PositionOf(text, T("pdfHeader", i))
                               < PositionOf(text, T("pdfImageHint", i))
                         /\ PositionOf(text, T("pdfImageHint", i))
                               < PositionOf(text, T("fileEnd", i))
                         /\ PositionOf(text, T("pdfText", i)) = 0
                         /\ PositionOf(text, T("pdfTextBlank", i)) = 0
                         /\ PositionOf(text, T("pdfError", i)) = 0

C22_Witness ==
    /\ pc = "sending"
    /\ Len(req.files) = 2
    /\ ExtractsNothing(req.files[2])
    /\ req.files[2].type = "absent"
    /\ PositionOf(SentText(backendReq), T("pdfImageHint", 2)) > 0

----------------------------------------------------------------------------
(* The persona *)

\* the text has the persona preamble in it
HasPreamble(breq) ==
    \/ Has(breq.prompt, "persona")
    \/ \E i \in 1..Len(breq.messages) : Has(breq.messages[i].content, "persona")

(* C23: in a turn that does not enable the persona (usePersonality false   *)
(* or absent) both hooks are the identity on every provider: the prompt    *)
(* sent to the backend has no persona preamble, and the text returned to   *)
(* the caller is the text of the backend, unchanged.                       *)
C23_PersonaDisabledIsIdentity ==
    persona.flag \in {"false", "absent"} =>
        /\ backendReq.provider # "none" => ~HasPreamble(backendReq)
        /\ persona.prompt = "none"
        /\ persona.response = "none"
        /\ \A i \in 1..Len(res.frames) :
              res.frames[i].kind = "content" => res.frames[i].msg \in {"", "text"}

(* C24: within one turn the suffix decision is one value used twice: the   *)
(* response phase applies the suffix exactly when the preamble of the same *)
(* turn said to include it.                                                *)
C24_OneSuffixDecisionPerTurn ==
    (pc = "done" /\ persona.prompt # "none") =>
        (persona.response = "suffix" <=> persona.prompt = "suffix")

----------------------------------------------------------------------------
(* The user profile *)

(* C25: the user-profile line is in the augmented prompt exactly when a    *)
(* profile is present and its context is non-empty after trimming; a       *)
(* profile with a name only, or with a context of white space only, leaves *)
(* the prompt as it is without any profile.                                *)
C25_ProfileOnlyWithContext ==
    (req # NoReq /\ backendReq.provider # "none") =>
        /\ Has(SentText(backendReq), "profile") <=> req.profile = "full"
        /\ req.profile \in {"nameOnly", "blankContext"} =>
              backendReq = BuildBackendReq(provider,
                                           IF kbCalls.returned = "context"
                                           THEN WithKnowledge(WithFiles(req), "context")
                                           ELSE WithFiles(req),
                                           History(req.histLen))

C25_Witness ==
    /\ pc = "sending"
    /\ req.profile = "blankContext"
    /\ ~Has(SentText(backendReq), "profile")
    /\ Has(SentText(backendReq), "message")

----------------------------------------------------------------------------
(* The Cloudflare worker: POST /api/chat *)

\* messages by the keywords they contain: none, a date keyword only, a keyword of
\* both lists, a search keyword only
WorkerMessages == {"plain", "date", "dateAndSearch", "search"}

isDateQuery(message) == message \in {"date", "dateAndSearch"}

shouldSearch(message) == message \in {"dateAndSearch", "search"}

WorkerBodies ==
    [message : WorkerMessages, useResearch : {"true", "false", "absent"},
     model : {"gemini", "gpt", "other"}, usePersonality : BOOLEAN]

\* the provider branch: the call is awaited, or the model is not supported, or the
\* OpenAI key of the worker is missing
CallProvider(body, enhanced, searches) ==
    \/ /\ body.model \in {"gemini", "gpt"}
       /\ worker' = [pc |-> "calling", body |-> body, enhanced |-> enhanced,
                     searches |-> searches, status |-> 0]
    \/ /\ body.model \in {"gpt", "other"}
       /\ worker' = [pc |-> "responded", body |-> body, enhanced |-> enhanced,
                     searches |-> searches, status |-> 500]

WorkerChat ==
    /\ worker.pc = "idle"
    /\ \E body \in WorkerBodies :
          IF isDateQuery(body.message)
          THEN CallProvider(body, "dateInfo", 0)
          ELSE IF body.useResearch = "true" \/ shouldSearch(body.message)
          THEN worker' = [pc |-> "searching", body |-> body, enhanced |-> "message",
                          searches |-> 1, status |-> 0]
          ELSE CallProvider(body, "message", 0)
    /\ UNCHANGED <<chatVars, knowledgeLoader, clients, kbLog, knowledgeDir>>

\* searchWeb resolves: with results, or with '' (no key, no item, an error)
SearchWebDone ==
    /\ worker.pc = "searching"
    /\ \E searchResults \in {"results", "empty"} :
          CallProvider(worker.body,
                       IF searchResults = "results" THEN "searchResults" ELSE "message",
                       worker.searches)
    /\ UNCHANGED <<chatVars, knowledgeLoader, clients, kbLog, knowledgeDir>>

\* callGemini or callOpenAI settles
ProviderAnswers ==
    /\ worker.pc = "calling"
    /\ \E status \in {200, 500} :
          worker' = [worker EXCEPT !.pc = "responded", !.status = status]
    /\ UNCHANGED <<chatVars, knowledgeLoader, clients, kbLog, knowledgeDir>>

WorkerNextRequest ==
    /\ worker.pc = "responded"
    /\ worker' = NoWorker
    /\ UNCHANGED <<chatVars, knowledgeLoader, clients, kbLog, knowledgeDir>>

NextWorker ==
    \/ WorkerChat
    \/ SearchWebDone
    \/ ProviderAnswers
    \/ WorkerNextRequest

SpecWorker == Init /\ [][NextWorker]_vars

(* C26: in the worker's chat endpoint, with research mode enabled          *)
(* (useResearch true) a web search is made for every message, whatever it  *)
(* contains.                                                               *)
C26_ResearchAlwaysSearches ==
    (worker.pc \in {"calling", "responded"} /\ worker.body.useResearch = "true") =>
        worker.searches >= 1

----------------------------------------------------------------------------
(* POST /api/admin/settings and GET /api/health *)

\* the settings endpoint: a key given in the body is written to process.env; the
\* Gemini client built at start-up is left as it is
AdminSettings ==
    /\ pc = "idle"
    /\ \E geminiApiKey \in BOOLEAN, openaiApiKey \in BOOLEAN :
          /\ geminiKey' = (geminiKey \/ geminiApiKey)
          /\ openaiKey' = (openaiKey \/ openaiApiKey)
    /\ UNCHANGED <<pc, req, enhancedMessage, provider, backendReq, requests, res, stream,
                   chunks, unhandled, knowledgeLoader, kbCalls, delivered, clientGone,
                   persona, genAI, sideVars>>

\* providers.gemini of GET /api/health, and the Gemini entries of GET /api/models
HealthReportsGemini == geminiKey

NextSettings ==
    \/ Next
    \/ AdminSettings

SpecSettings == Init /\ [][NextSettings]_vars

(* C27: after any sequence of settings updates and chat turns, whenever    *)
(* the health endpoint reports providers.gemini = true, a chat turn routed *)
(* to Gemini does not end with the error 'Gemini API key not configured'.  *)
C27_HealthAgreesWithChat ==
    [][(pc = "idle" /\ HealthReportsGemini /\ pc' = "failed" /\ provider' = "gemini")
          => \A i \in 1..Len(res'.frames) :
                res'.frames[i].msg # "Gemini API key not configured"]_vars

----------------------------------------------------------------------------
(* Concurrent requests on the knowledge loader: the knowledge block of     *)
(* POST /api/chat, GET /api/knowledge, POST /api/knowledge/upload          *)

Answered(c, kind, status) ==
    [clients EXCEPT ![c] = [@ EXCEPT !.kind = kind, !.pc = "done", !.status = status]]

\* if (knowledgeLoader.documents.length === 0) await knowledgeLoader.loadDocuments()
InitialLoad(c, kind, loader) ==
    IF loader.documents = 0
    THEN /\ clients' = [clients EXCEPT ![c] = [@ EXCEPT !.kind = kind, !.pc = "loading"]]
         /\ kbLog' = [kbLog EXCEPT !.initialLoads = @ + 1]
    ELSE /\ clients' = Answered(c, kind, 200)
         /\ UNCHANGED kbLog

\* the knowledge block of a chat turn with useKnowledge true, up to its await
KnowledgeChat(c) ==
    /\ clients[c].pc = "idle"
    /\ IF ~knowledgeLoader.constructed
       THEN \/ /\ knowledgeLoader' = [knowledgeLoader EXCEPT !.constructed = TRUE]
               /\ clients' = Answered(c, "chat", 500)
               /\ kbLog' = [kbLog EXCEPT !.assigned = @ + 1]
            \/ /\ knowledgeLoader' = [knowledgeLoader EXCEPT !.constructed = TRUE]
               /\ IF knowledgeLoader.documents = 0
                  THEN /\ clients' = [clients EXCEPT ![c] =
                                         [@ EXCEPT !.kind = "chat", !.pc = "loading"]]
                       /\ kbLog' = [assigned |-> kbLog.assigned + 1,
                                    initialLoads |-> kbLog.initialLoads + 1]
                  ELSE /\ clients' = Answered(c, "chat", 200)
                       /\ kbLog' = [kbLog EXCEPT !.assigned = @ + 1]
       ELSE /\ InitialLoad(c, "chat", knowledgeLoader)
            /\ UNCHANGED knowledgeLoader
    /\ UNCHANGED <<chatVars, knowledgeDir, worker>>

\* GET /api/knowledge, up to its await
KnowledgeList(c) ==
    /\ clients[c].pc = "idle"
    /\ IF ~knowledgeLoader.constructed
       THEN clients' = Answered(c, "list", 200) /\ UNCHANGED kbLog
       ELSE InitialLoad(c, "list", knowledgeLoader)
    /\ UNCHANGED <<chatVars, knowledgeLoader, knowledgeDir, worker>>

\* the initial loadDocuments of a request settles: the directory is read, or it rejects
InitialLoadDone(c) ==
    /\ clients[c].pc = "loading"
    /\ kbLog' = [kbLog EXCEPT !.initialLoads = @ - 1]
    /\ \/ /\ knowledgeLoader' = [knowledgeLoader EXCEPT
                                    !.documents = Cardinality(knowledgeDir)]
          /\ clients' = Answered(c, clients[c].kind, 200)
       \/ /\ clients' = Answered(c, clients[c].kind, 500)
          /\ UNCHANGED knowledgeLoader
    /\ UNCHANGED <<chatVars, knowledgeDir, worker>>

UploadNames == {"", "a.md", "b.md"}

\* POST /api/knowledge/upload, up to fs.writeFile
KnowledgeUpload(c) ==
    /\ clients[c].pc = "idle"
    /\ \E filename \in UploadNames, content \in BOOLEAN :
          IF filename = "" \/ ~content
          THEN clients' = Answered(c, "upload", 400)
          ELSE clients' = [clients EXCEPT ![c] =
                              [@ EXCEPT !.kind = "upload", !.pc = "writing",
                                        !.file = filename]]
    /\ UNCHANGED <<chatVars, knowledgeLoader, kbLog, knowledgeDir, worker>>

\* fs.writeFile settles; on success the handler calls knowledgeLoader.loadDocuments(),
\* a TypeError while knowledgeLoader is null
WriteFileDone(c) ==
    /\ clients[c].pc = "writing"
    /\ \/ /\ clients' = Answered(c, "upload", 500)
          /\ UNCHANGED knowledgeDir
       \/ /\ knowledgeDir' = knowledgeDir \cup {clients[c].file}
          /\ IF ~knowledgeLoader.constructed
             THEN clients' = [clients EXCEPT ![c] =
                                 [@ EXCEPT !.pc = "done", !.status = 500, !.wrote = TRUE]]
             ELSE clients' = [clients EXCEPT ![c] =
                                 [@ EXCEPT !.pc = "reloading", !.wrote = TRUE]]
    /\ UNCHANGED <<chatVars, knowledgeLoader, kbLog, worker>>

\* the loadDocuments of the upload settles
ReloadDone(c) ==
    /\ clients[c].pc = "reloading"
    /\ \/ /\ knowledgeLoader' = [knowledgeLoader EXCEPT
                                    !.documents = Cardinality(knowledgeDir)]
          /\ clients' = Answered(c, "upload", 200)
       \/ /\ clients' = Answered(c, "upload", 500)
          /\ UNCHANGED knowledgeLoader
    /\ UNCHANGED <<chatVars, kbLog, knowledgeDir, worker>>

ClientNextRequest(c) ==
    /\ clients[c].pc = "done"
    /\ clients' = [clients EXCEPT ![c] = NoClient]
    /\ UNCHANGED <<chatVars, knowledgeLoader, kbLog, knowledgeDir, worker>>

NextKnowledge ==
    \/ \E c \in ClientIds : KnowledgeChat(c)
    \/ \E c \in ClientIds : KnowledgeList(c)
    \/ \E c \in ClientIds : InitialLoadDone(c)
    \/ \E c \in ClientIds : KnowledgeUpload(c)
    \/ \E c \in ClientIds : WriteFileDone(c)
    \/ \E c \in ClientIds : ReloadDone(c)
    \/ \E c \in ClientIds : ClientNextRequest(c)

SpecKnowledge == Init /\ [][NextKnowledge]_vars

(* C28: across every interleaving of concurrent knowledge-enabled chat     *)
(* turns and /api/knowledge requests the shared loader is initialised at   *)
(* most once: it is constructed at most once, and no request starts the    *)
(* initial loadDocuments while another initial load is still in progress.  *)
C28_LoaderInitialisedOnce ==
    /\ kbLog.assigned <= 1
    /\ kbLog.initialLoads <= 1

(* C29: whenever the upload endpoint answers with an error status, no file *)
(* was written to the knowledge directory by that request, also when the   *)
(* upload comes before any chat turn has created the knowledge loader.     *)
C29_FailedUploadWritesNothing ==
    \A c \in ClientIds :
        (clients[c].kind = "upload" /\ clients[c].status \in {400, 500}) =>
            ~clients[c].wrote

(* C30: on every adapter and in every reachable state an error frame is    *)
(* written only when no content frame has been written for the turn: no    *)
(* content frame is ever followed by an error frame.                       *)
C30_NoErrorFrameAfterContent ==
    \A i \in 1..Len(res.frames), j \in 1..Len(res.frames) :
        (i < j /\ res.frames[i].kind = "content") => res.frames[j].kind # "error"

\* a turn whose backend request was sent and that ended with an error frame
C30_Witness ==
    /\ pc = "failed"
    /\ provider \in {"gemini", "openai", "ollama"}
    /\ \E i \in 1..Len(res.frames) : res.frames[i].kind = "error"
    /\ \A i \in 1..Len(res.frames) : res.frames[i].kind # "content"

====
